---- MODULE Spec2Model ----
(***************************************************************************)
(* Model of horizon_logger (src/src/lib.rs): the five severity methods,    *)
(* the internal log function, get_history, and the process-wide history    *)
(* LOG_HISTORY: Lazy<Mutex<Vec<LogEntry>>>.                                *)
(*                                                                         *)
(* Each thread runs the code of log / get_history one statement at a time. *)
(* std::sync::Mutex is modelled with its owner and its poison flag: a      *)
(* guard dropped while its thread unwinds from a panic poisons the mutex,  *)
(* and lock() on a poisoned mutex returns Err.  Nothing in log or           *)
(* get_history panics by itself; PanicSpec adds a panic of the allocation  *)
(* inside the critical sections, the one way the Err branches are reached. *)
(* LoggersSpec adds HorizonLogger::new: threads that construct loggers of  *)
(* their own between calls.                                                *)
(***************************************************************************)
EXTENDS Integers, Sequences, FiniteSets, TLC

\* ------------------------------------------------------------------ bounds
\* Threads that call the logger.
NumThreads == 2
\* log calls issued after the initial state (all threads together).
MaxCalls == 2
\* get_history calls issued (all threads together).
MaxReads == 2
\* HorizonLogger values constructed (the one all threads start with included).
MaxLoggers == 2
\* The instants, in nanoseconds, at which the wall clock is read.
Instants == {999999, 1000000}

\* ------------------------------------------------------- program constants
\* "Keep only last 1000 entries": if history.len() > 1000
Capacity == 1000
\* format!("{:^7}", ..)
LabelWidth == 7
\* "%.3f": the fraction of the second is cut to 3 of its 9 digits
NanosPerMilli == 1000000

Threads == 1..NumThreads
NoThread == 0

\* enum LogLevel
LogLevel == {"DEBUG", "INFO", "WARN", "ERROR", "CRITICAL"}

\* The (component, message) pairs callers pass: those of example_usage
\* (lines 192-196, the messages shortened), and empty strings, which are
\* legal too.
Arguments ==
    [debug |-> {<<"SYSTEM", "init">>},
     info |-> {<<"NETWORK", "connected">>},
     warn |-> {<<"", "">>},
     error |-> {<<"DATABASE", "">>},
     critical |-> {<<"SECURITY", "breach">>}]

\* format!("{:^7}", s): s centred in a field of 7, the odd space on the right.
Center(s, width) ==
    LET pad == IF Len(s) >= width THEN 0 ELSE width - Len(s)
        left == pad \div 2
    IN  [text |-> s, left |-> left, right |-> pad - left]

\* CRITICAL rendered by the arm of ERROR.
colorCriticalAsError(level) ==
    CASE level = "DEBUG"    -> [label |-> Center("DEBUG", LabelWidth), fg |-> "cyan",   bg |-> "none"]
      [] level = "INFO"     -> [label |-> Center("INFO",  LabelWidth), fg |-> "green",  bg |-> "none"]
      [] level = "WARN"     -> [label |-> Center("WARN",  LabelWidth), fg |-> "yellow", bg |-> "none"]
      [] level = "ERROR"    -> [label |-> Center("ERROR", LabelWidth), fg |-> "red",    bg |-> "none"]
      [] level = "CRITICAL" -> [label |-> Center("ERROR", LabelWidth), fg |-> "red",    bg |-> "none"]

\* LogLevel::color
color(level) ==
    CASE level = "DEBUG"    -> [label |-> Center("DEBUG", LabelWidth), fg |-> "cyan",   bg |-> "none"]
      [] level = "INFO"     -> [label |-> Center("INFO",  LabelWidth), fg |-> "green",  bg |-> "none"]
      [] level = "WARN"     -> [label |-> Center("WARN",  LabelWidth), fg |-> "yellow", bg |-> "none"]
      [] level = "ERROR"    -> [label |-> Center("ERROR", LabelWidth), fg |-> "red",    bg |-> "none"]
      [] level = "CRITICAL" -> [label |-> Center("CRIT",  LabelWidth), fg |-> "white",  bg |-> "red"]

\* A format that keeps only the digits below the millisecond.
FormatSubMilli(now) == now % NanosPerMilli

\* Local::now().format("%Y-%m-%d %H:%M:%S%.3f"): the instant in whole
\* milliseconds, the rest cut off.
FormatTimestamp(now) == now \div NanosPerMilli

\* struct LogEntry
LogEntry(timestamp, level, component, message) ==
    [timestamp |-> timestamp, level |-> level,
     component |-> component, message |-> message]

\* The line println! writes: timestamp, level.color(), thread id, component, message.
ConsoleLine(timestamp, level, t, component, message) ==
    [timestamp |-> timestamp, severity |-> color(level), thread |-> t,
     component |-> component, message |-> message]

VARIABLES
    history,    \* the Vec<LogEntry> inside LOG_HISTORY
    holder,     \* the thread that owns the mutex, or NoThread
    poisoned,   \* the mutex's poison flag
    clock,      \* the local wall clock as it was last read, in nanoseconds
    console,    \* the lines written to standard output since the initial state
    pc,         \* each thread's position in log / get_history
    level,      \* log's parameter, per thread
    component,  \* log's parameter, per thread
    message,    \* log's parameter, per thread
    timestamp,  \* log's local, per thread
    snapshot,   \* the vector each thread's last get_history returned
    logger,     \* the HorizonLogger each thread calls through, numbered in
                \* the order of construction
    start,      \* history variable: the log calls completed before the initial state
    calls,      \* history variable: the calls made since, in call order: the
                \* caller, its logger, the method, its arguments, the instant it
                \* read the clock, and the calls that had ended when it was made
    pushed,     \* history variable: the calls pushed since, in push order, each
                \* named by its index in calls
    cur,        \* history variable: the index in calls of each thread's call
    got,        \* history variable: how each thread's last get_history ended
    ver,        \* history variable: Len(pushed) when that get_history copied
    reads       \* history variable: get_history calls made since the initial state

vars == <<history, holder, poisoned, clock, console, pc, level, component,
          message, timestamp, snapshot, logger, start, calls, pushed, cur, got,
          ver, reads>>

locals == <<level, component, message, timestamp>>
ghost == <<start, calls, pushed, cur, got, ver, reads>>

\* ----------------------------------------------------------- vector values
\* A Vec<LogEntry> value a caller holds: its own elements.  (shared = TRUE,
\* a value that is the history's own storage, is what no code here builds.)
Items(v) == IF v.shared THEN history ELSE v.items

\* Vec::default(): the empty vector.
EmptyVec == [shared |-> FALSE, items |-> <<>>]

\* No copy: the caller is handed the history's own storage.
CloneShared(h) == [shared |-> TRUE, items |-> <<>>]

\* Vec::clone: a new vector holding a clone of each element, in order.
Clone(h) == [shared |-> FALSE, items |-> [i \in 1..Len(h) |-> h[i]]]

\* ------------------------------------------------------------ initial state
\* The calls that filled the history before the initial state: call i was
\* made by thread 1, the severities in rotation.
LevelOf(i) ==
    CASE i % 5 = 1 -> "DEBUG"
      [] i % 5 = 2 -> "INFO"
      [] i % 5 = 3 -> "WARN"
      [] i % 5 = 4 -> "ERROR"
      [] OTHER     -> "CRITICAL"

EarlierEntry(i) == LogEntry(0, LevelOf(i), "", "")

\* How many log calls thread 1 has completed before the initial state.
StartLens == {0, Capacity - 1}

\* LOG_HISTORY after n completed calls of thread 1 on the fresh (empty,
\* unpoisoned, unlocked) mutex of Lazy::new(|| Mutex::new(Vec::new())).
InitAfter(n) ==
        /\ history = [i \in 1..n |-> EarlierEntry(i)]
        /\ start = n
        /\ console = <<>>
        /\ calls = <<>>
        /\ pushed = <<>>
        /\ holder = NoThread
        /\ poisoned = FALSE
        /\ clock = 0
        /\ pc = [t \in Threads |-> "idle"]
        /\ level = [t \in Threads |-> "DEBUG"]
        /\ component = [t \in Threads |-> ""]
        /\ message = [t \in Threads |-> ""]
        /\ timestamp = [t \in Threads |-> 0]
        /\ snapshot = [t \in Threads |-> EmptyVec]
        /\ logger = [t \in Threads |-> 1]
        /\ cur = [t \in Threads |-> 0]
        /\ got = [t \in Threads |-> "none"]
        /\ ver = [t \in Threads |-> 0]
        /\ reads = 0

Init == \E n \in StartLens : InitAfter(n)

\* ------------------------------------------------------------ the mutex
\* A lock that never blocks: it is granted while another thread holds it.
LockNeverBlocks == TRUE

\* Mutex::lock blocks until the mutex is free.
CanLock == holder = NoThread

\* The guard leaked (mem::forget): the mutex stays locked.
UnlockLeaked(t) ==
    /\ holder = t
    /\ UNCHANGED <<holder, poisoned>>

\* MutexGuard::drop on the normal path: the mutex is released.
Unlock(t) ==
    /\ holder = t
    /\ holder' = NoThread
    /\ UNCHANGED poisoned

\* MutexGuard::drop while the thread unwinds: released and poisoned.
UnlockPanicking(t) ==
    /\ holder = t
    /\ holder' = NoThread
    /\ poisoned' = TRUE

\* ------------------------------------------------------------------- log
\* log returns: its frame is gone.
Return(t) ==
    /\ pc' = [pc EXCEPT ![t] = "idle"]
    /\ level' = [level EXCEPT ![t] = "DEBUG"]
    /\ component' = [component EXCEPT ![t] = ""]
    /\ message' = [message EXCEPT ![t] = ""]
    /\ timestamp' = [timestamp EXCEPT ![t] = 0]
    /\ cur' = [cur EXCEPT ![t] = 0]

\* log taking the lock on entry, before lines 91-111: the line is printed
\* with the lock held.
logUnderLock(t, lv, c, m) ==
    /\ pc[t] = "idle"
    /\ Len(calls) < MaxCalls
    /\ holder = NoThread
    /\ ~poisoned
    /\ holder' = t
    /\ \E now \in Instants :
        /\ clock' = now
        /\ timestamp' = [timestamp EXCEPT ![t] = FormatTimestamp(now)]
        /\ console' = Append(console, ConsoleLine(FormatTimestamp(now), lv, t, c, m))
    /\ level' = [level EXCEPT ![t] = lv]
    /\ component' = [component EXCEPT ![t] = c]
    /\ message' = [message EXCEPT ![t] = m]
    /\ cur' = [cur EXCEPT ![t] = Len(calls) + 1]
    /\ pc' = [pc EXCEPT ![t] = "push"]
    /\ UNCHANGED <<logger, history, poisoned, snapshot, start, pushed, got, ver, reads>>

\* fn log(&self, level, component, message), lines 91-111, which touch
\* nothing shared but standard output:
\*   let timestamp = Local::now().format(..).to_string();
\*   println!("{} {} {} {} {}", timestamp, level.color(), thread_info,
\*            formatted_component, message);
\*   let entry = LogEntry { timestamp, level, component, message };
\* Local::now() reads the wall clock (the system's real-time clock, which
\* can be set back between two readings).
log(t, lv, c, m) ==
    /\ pc[t] = "idle"
    /\ Len(calls) < MaxCalls
    /\ \E now \in Instants :
        /\ clock' = now
        /\ timestamp' = [timestamp EXCEPT ![t] = FormatTimestamp(now)]
        /\ console' = Append(console, ConsoleLine(FormatTimestamp(now), lv, t, c, m))
    /\ level' = [level EXCEPT ![t] = lv]
    /\ component' = [component EXCEPT ![t] = c]
    /\ message' = [message EXCEPT ![t] = m]
    /\ cur' = [cur EXCEPT ![t] = Len(calls) + 1]
    /\ pc' = [pc EXCEPT ![t] = "lock"]
    /\ UNCHANGED <<logger, history, holder, poisoned, snapshot, start, pushed, got,
                   ver, reads>>

\* The call as the caller made it: the thread, the HorizonLogger it was
\* made on, the method and its arguments, and the instant Local::now() read.
Called(t, method, c, m) ==
    calls' = Append(calls, [thread |-> t, method |-> method,
                            component |-> c, message |-> m,
                            at |-> clock', via |-> logger[t],
                            prior |-> {k \in 1..Len(calls) :
                                          \A u \in Threads : cur[u] # k}])

\* pub fn debug / info / warn / error / critical
debug(t, c, m) == log(t, "DEBUG", c, m) /\ Called(t, "debug", c, m)

info(t, c, m) == log(t, "INFO", c, m) /\ Called(t, "info", c, m)

warn(t, c, m) == log(t, "WARN", c, m) /\ Called(t, "warn", c, m)

error(t, c, m) == log(t, "ERROR", c, m) /\ Called(t, "error", c, m)

\* critical logging at the severity of error.
criticalAsError(t, c, m) == log(t, "ERROR", c, m) /\ Called(t, "critical", c, m)

critical(t, c, m) == log(t, "CRITICAL", c, m) /\ Called(t, "critical", c, m)

\* LOG_HISTORY.lock().unwrap(): Err on a poisoned mutex panics.
LogLockUnwrap(t) ==
    /\ pc[t] = "lock"
    /\ CanLock
    /\ IF poisoned
         THEN /\ pc' = [pc EXCEPT ![t] = "panicked"]
              /\ UNCHANGED holder
         ELSE /\ pc' = [pc EXCEPT ![t] = "push"]
              /\ holder' = t
    /\ UNCHANGED <<logger, history, poisoned, clock, console, locals, snapshot, ghost>>

\* The poison cleared by the first log call that meets it:
\* lock().unwrap_or_else(|e| { LOG_HISTORY.clear_poison(); e.into_inner() }).
LogLockRecovers(t) ==
    /\ pc[t] = "lock"
    /\ CanLock
    /\ pc' = [pc EXCEPT ![t] = "push"]
    /\ holder' = t
    /\ poisoned' = FALSE
    /\ UNCHANGED <<logger, history, clock, console, locals, snapshot, ghost>>

\* if let Ok(mut history) = LOG_HISTORY.try_lock(): Err also when another
\* thread holds the mutex, and log returns without waiting.
LogLockTry(t) ==
    /\ pc[t] = "lock"
    /\ IF poisoned \/ holder # NoThread
         THEN /\ Return(t)
              /\ UNCHANGED holder
         ELSE /\ pc' = [pc EXCEPT ![t] = "push"]
              /\ holder' = t
              /\ UNCHANGED <<locals, cur>>
    /\ UNCHANGED <<logger, history, poisoned, clock, console, snapshot, start,
                   calls, pushed, got, ver, reads>>

\* if let Ok(mut history) = LOG_HISTORY.lock(): Err on a poisoned mutex, whose
\* guard is dropped with the PoisonError, and log returns.
LogLock(t) ==
    /\ pc[t] = "lock"
    /\ CanLock
    /\ IF poisoned
         THEN /\ Return(t)
              /\ UNCHANGED holder
         ELSE /\ pc' = [pc EXCEPT ![t] = "push"]
              /\ holder' = t
              /\ UNCHANGED <<locals, cur>>
    /\ UNCHANGED <<logger, history, poisoned, clock, console, snapshot, start, calls,
                   pushed, got, ver, reads>>

\* A push at the front: history.insert(0, entry).
PushFront(h, t) ==
    <<LogEntry(timestamp[t], level[t], component[t], message[t])>> \o h

\* An entry whose strings come from a buffer all threads share, which holds
\* those of the line printed last.
PushEntryOfLastLine(h, t) ==
    Append(h, LogEntry(timestamp[t], level[t],
                       console[Len(console)].component,
                       console[Len(console)].message))

\* history.push(entry), entry built from the same timestamp, level,
\* component and message (lines 106-111).
PushEntry(h, t) ==
    Append(h, LogEntry(timestamp[t], level[t], component[t], message[t]))

LogPush(t) ==
    /\ pc[t] = "push"
    /\ holder = t
    /\ history' = PushEntry(history, t)
    /\ pushed' = Append(pushed, cur[t])
    /\ pc' = [pc EXCEPT ![t] = "trim"]
    /\ UNCHANGED <<logger, holder, poisoned, clock, console, locals, snapshot, start,
                   calls, cur, got, ver, reads>>

\* A threshold off by one: if history.len() > 1001.
TrimLate(h) == IF Len(h) > Capacity + 1 THEN Tail(h) ELSE h

\* The newest record removed: history.pop().
TrimNewest(h) == IF Len(h) > Capacity THEN SubSeq(h, 1, Len(h) - 1) ELSE h

\* if history.len() > 1000 { history.remove(0); }
Trim(h) == IF Len(h) > Capacity THEN Tail(h) ELSE h

\* .. and the guard goes out of scope at the end of the if let: log returns.
LogTrim(t) ==
    /\ pc[t] = "trim"
    /\ Unlock(t)
    /\ history' = Trim(history)
    /\ Return(t)
    /\ UNCHANGED <<logger, clock, console, snapshot, start, calls, pushed, got, ver,
                   reads>>

\* Vec::push panics (its allocation fails) before the vector changes: the
\* thread unwinds, dropping the guard, and does not come back.
LogPushPanics(t) ==
    /\ pc[t] = "push"
    /\ UnlockPanicking(t)
    /\ pc' = [pc EXCEPT ![t] = "panicked"]
    /\ UNCHANGED <<logger, history, clock, console, locals, snapshot, ghost>>

\* ------------------------------------------------------------ get_history
\* pub fn get_history(&self) -> Vec<LogEntry>: entry.
get_history(t) ==
    /\ pc[t] = "idle"
    /\ reads < MaxReads
    /\ reads' = reads + 1
    /\ pc' = [pc EXCEPT ![t] = "acquire"]
    /\ UNCHANGED <<logger, history, holder, poisoned, clock, console, locals, snapshot,
                   start, calls, pushed, cur, got, ver>>

\* The poison ignored: lock().unwrap_or_else(|e| e.into_inner()).
GetHistoryLockIntoInner(t) ==
    /\ pc[t] = "acquire"
    /\ CanLock
    /\ pc' = [pc EXCEPT ![t] = "clone"]
    /\ holder' = t
    /\ UNCHANGED <<logger, history, poisoned, clock, console, locals, snapshot, ghost>>

\* LOG_HISTORY.lock() ... .unwrap_or_default(): Err on a poisoned mutex, whose
\* guard is dropped with the PoisonError, gives Vec::default(), and
\* get_history returns it.
GetHistoryLock(t) ==
    /\ pc[t] = "acquire"
    /\ CanLock
    /\ IF poisoned
         THEN /\ snapshot' = [snapshot EXCEPT ![t] = EmptyVec]
              /\ got' = [got EXCEPT ![t] = "default"]
              /\ pc' = [pc EXCEPT ![t] = "idle"]
              /\ UNCHANGED holder
         ELSE /\ pc' = [pc EXCEPT ![t] = "clone"]
              /\ holder' = t
              /\ UNCHANGED <<snapshot, got>>
    /\ UNCHANGED <<logger, history, poisoned, clock, console, locals, start, calls,
                   pushed, cur, ver, reads>>

\* The records moved out, not copied: std::mem::take(&mut *history).
GetHistoryTake(t) ==
    /\ pc[t] = "clone"
    /\ Unlock(t)
    /\ snapshot' = [snapshot EXCEPT ![t] = Clone(history)]
    /\ history' = <<>>
    /\ got' = [got EXCEPT ![t] = "copy"]
    /\ ver' = [ver EXCEPT ![t] = Len(pushed)]
    /\ pc' = [pc EXCEPT ![t] = "idle"]
    /\ UNCHANGED <<logger, clock, console, locals, start, calls, pushed, cur, reads>>

\* .map(|history| history.clone()): the copy is taken, the guard moved into
\* the closure is dropped, and get_history returns the copy.
GetHistoryClone(t) ==
    /\ pc[t] = "clone"
    /\ Unlock(t)
    /\ snapshot' = [snapshot EXCEPT ![t] = Clone(history)]
    /\ got' = [got EXCEPT ![t] = "copy"]
    /\ ver' = [ver EXCEPT ![t] = Len(pushed)]
    /\ pc' = [pc EXCEPT ![t] = "idle"]
    /\ UNCHANGED <<logger, history, clock, console, locals, start, calls, pushed, cur,
                   reads>>

\* Vec::clone panics (its allocation fails): the thread unwinds, dropping
\* the guard, and does not come back.
GetHistoryClonePanics(t) ==
    /\ pc[t] = "clone"
    /\ UnlockPanicking(t)
    /\ pc' = [pc EXCEPT ![t] = "panicked"]
    /\ UNCHANGED <<logger, history, clock, console, locals, snapshot, ghost>>

\* ------------------------------------------------------ HorizonLogger::new
\* The number the next HorizonLogger constructed gets.
NextLogger ==
    1 + CHOOSE n \in 1..MaxLoggers :
            /\ \E t \in Threads : logger[t] = n
            /\ \A t \in Threads : logger[t] <= n

\* A constructor that sets up the history anew: the vector is cleared.
newClearsHistory(t) ==
    /\ pc[t] = "idle"
    /\ NextLogger <= MaxLoggers
    /\ logger' = [logger EXCEPT ![t] = NextLogger]
    /\ history' = <<>>
    /\ UNCHANGED <<holder, poisoned, clock, console, pc, locals, snapshot,
                   ghost>>

\* pub struct HorizonLogger; pub fn new() -> Self { Self }: a value with no
\* field, which the thread calls through from now on.  LOG_HISTORY is a
\* static: new does not touch it.
new(t) ==
    /\ pc[t] = "idle"
    /\ NextLogger <= MaxLoggers
    /\ logger' = [logger EXCEPT ![t] = NextLogger]
    /\ UNCHANGED <<history, holder, poisoned, clock, console, pc, locals,
                   snapshot, ghost>>

\* ------------------------------------------------------ the specifications
Call(t) ==
    \/ \E a \in Arguments.debug : debug(t, a[1], a[2])
    \/ \E a \in Arguments.info : info(t, a[1], a[2])
    \/ \E a \in Arguments.warn : warn(t, a[1], a[2])
    \/ \E a \in Arguments.error : error(t, a[1], a[2])
    \/ \E a \in Arguments.critical : critical(t, a[1], a[2])

\* One step of thread t in the code as written.
Step(t) ==
    \/ Call(t)
    \/ LogLock(t)
    \/ LogPush(t)
    \/ LogTrim(t)
    \/ get_history(t)
    \/ GetHistoryLock(t)
    \/ GetHistoryClone(t)

Next == \E t \in Threads : Step(t)

\* The code as written: no step of it panics.
Spec == Init /\ [][Next]_vars

\* .. and with the allocation inside a critical section panicking.
PanicNext ==
    \E t \in Threads :
        \/ Step(t)
        \/ LogPushPanics(t)
        \/ GetHistoryClonePanics(t)

PanicSpec == Init /\ [][PanicNext]_vars

\* The code as written, with threads that construct loggers of their own,
\* on the empty history of Lazy::new.
LoggersNext ==
    \E t \in Threads :
        \/ Step(t)
        \/ new(t)

LoggersSpec == InitAfter(0) /\ [][LoggersNext]_vars

\* A scheduler that lets every thread that can take a step of the call it
\* is in take it: a thread need not make a call, but a call made is run on.
\* (The calls being finitely many, weak fairness of the lock steps is
\* enough: the mutex is in the end left free.)  No panic is ever due.
InCallStep(t) ==
    \/ LogLock(t)
    \/ LogPush(t)
    \/ LogTrim(t)
    \/ GetHistoryLock(t)
    \/ GetHistoryClone(t)

\* The lock steps read nothing of the history's records, so this
\* specification starts on the empty history of Lazy::new.
FairSpec ==
    /\ InitAfter(0)
    /\ [][PanicNext]_vars
    /\ \A t \in Threads : WF_vars(InCallStep(t))

\* ================================================================ claims
\* The severity each method logs with.
LevelOfMethod(method) ==
    CASE method = "debug"    -> "DEBUG"
      [] method = "info"     -> "INFO"
      [] method = "warn"     -> "WARN"
      [] method = "error"    -> "ERROR"
      [] method = "critical" -> "CRITICAL"

\* The record that call number k, counted from the first call made on the
\* empty history, is to leave: the method's severity, the caller's strings,
\* and the timestamp printed on the call's line.
Expected(k) ==
    IF k <= start
      THEN [timestamp |-> 0, level |-> LevelOf(k), component |-> "", message |-> ""]
      ELSE [timestamp |-> console[k - start].timestamp,
            level |-> LevelOfMethod(calls[k - start].method),
            component |-> calls[k - start].component,
            message |-> calls[k - start].message]

\* All pushes so far, and the number of the call that made the i-th of them.
NPushed == start + Len(pushed)
PushOrder(i) == IF i <= start THEN i ELSE start + pushed[i - start]

\* All calls so far.
NCalls == start + Len(calls)

InLog(t) == pc[t] \in {"lock", "push", "trim"}
\* Every log call made has returned, and the mutex is not poisoned.
AllLogged == ~poisoned /\ \A t \in Threads : ~InLog(t)

\* A get_history of t has returned a copy, and nothing was pushed since.
FreshCopy(t) == got[t] = "copy" /\ ver[t] = Len(pushed)

\* C1: whenever no thread holds the history lock the history holds at most
\* 1000 records, and so does every vector get_history has returned.
C1_HistoryBounded ==
    /\ holder = NoThread => Len(history) <= Capacity
    /\ \A t \in Threads : Len(Items(snapshot[t])) <= Capacity

\* C1's case: records were evicted, the history is full, a full copy was returned.
C1_Witness ==
    /\ holder = NoThread
    /\ NPushed > Capacity
    /\ Len(history) = Capacity
    /\ \E t \in Threads : got[t] = "copy" /\ Len(Items(snapshot[t])) = Capacity

\* C2: once N <= 1000 log calls, started on the empty history, have all
\* returned and the lock is not poisoned, the history holds exactly N
\* records, one for each call and in the order of the calls (a call that
\* had returned before another was made comes first), and get_history
\* returns exactly these.
C2_AllKeptInOrder ==
    (AllLogged /\ NCalls <= Capacity) =>
        /\ Len(history) = NCalls
        /\ Len(pushed) = Len(calls)
        /\ \A i \in 1..Len(history) : history[i] = Expected(PushOrder(i))
        /\ \A i, j \in 1..Len(pushed) :
              /\ i # j => pushed[i] # pushed[j]
              /\ i < j => pushed[j] \notin calls[pushed[i]].prior
        /\ \A t \in Threads : FreshCopy(t) => Items(snapshot[t]) = history

\* C2's case: several calls, none evicted, and a copy of them returned.
C2_Witness ==
    /\ AllLogged
    /\ Len(calls) >= 2
    /\ NCalls <= Capacity
    /\ calls[2].prior = {1}
    /\ history # <<>>
    /\ \E t \in Threads : FreshCopy(t)

\* C3: once N > 1000 log calls, all made by one thread, have returned, the
\* history holds exactly 1000 records: calls number N-999 .. N, in that order.
C3_LastThousand ==
    (AllLogged /\ NCalls > Capacity /\ \A k \in 1..Len(calls) : calls[k].thread = 1) =>
        /\ Len(history) = Capacity
        /\ \A i \in 1..Capacity : history[i] = Expected(NCalls - Capacity + i)
        /\ \A t \in Threads : FreshCopy(t) => Items(snapshot[t]) = history

\* C3's case: one thread has made more than 1000 calls.
C3_Witness ==
    /\ AllLogged
    /\ NCalls > Capacity
    /\ Len(calls) >= 2
    /\ \A k \in 1..Len(calls) : calls[k].thread = 1

\* C4: once concurrent log calls, more than 1000 in all, have returned, the
\* history holds exactly 1000 records, each of them the severity, component
\* and message of one call that was made, and no call is recorded twice:
\* they are the records of the last 1000 pushes.
C4_ConcurrentRecordsWhole ==
    (AllLogged /\ NCalls > Capacity) =>
        /\ Len(history) = Capacity
        /\ NPushed = NCalls
        /\ LET evicted == NPushed - Capacity
               made == NCalls
           IN  \A i \in 1..Capacity :
                  LET k == PushOrder(evicted + i)
                      e == Expected(k)
                      r == history[i]
                  IN  /\ k >= 1
                      /\ k <= made
                      /\ r.level = e.level
                      /\ r.component = e.component
                      /\ r.message = e.message
        /\ \A i, j \in 1..Len(pushed) : i # j => pushed[i] # pushed[j]

\* C4's case: two threads' calls overlapped, and were pushed in the other order.
C4_Witness ==
    /\ AllLogged
    /\ NCalls > Capacity
    /\ Len(calls) >= 2
    /\ calls[1].thread # calls[2].thread
    /\ pushed[1] = 2

\* The line a thread's running call has printed.
LineOf(t) ==
    [timestamp |-> timestamp[t],
     severity |-> color(LevelOfMethod(calls[cur[t]].method)),
     thread |-> t,
     component |-> calls[cur[t]].component,
     message |-> calls[cur[t]].message]

\* C5: a log call that finds the lock poisoned has printed its line, returns
\* normally, and leaves the history as it was: its record is not appended.
C5_PoisonedLogPrintsOnly ==
    [][\A t \in Threads :
          (pc[t] = "lock" /\ poisoned /\ pc'[t] # "lock") =>
              /\ pc'[t] = "idle"
              /\ cur[t] \in 1..Len(console)
              /\ console[cur[t]] = LineOf(t)
              /\ console' = console
              /\ history' = history
              /\ pushed' = pushed
              /\ holder' = holder]_vars

\* C5's case: a call has returned whose line is printed and whose record
\* is not in the history, the lock being poisoned.
C5_Witness ==
    /\ poisoned
    /\ \E k \in 1..Len(calls) :
          /\ \A t \in Threads : cur[t] # k
          /\ \A i \in 1..Len(pushed) : pushed[i] # k
          /\ console[k].component = calls[k].component
          /\ console[k].message = calls[k].message

\* C6: a get_history that finds the lock poisoned returns the empty
\* sequence, whatever the history holds, returns normally, and leaves the
\* history as it was.
C6_PoisonedReadIsEmpty ==
    [][\A t \in Threads :
          (pc[t] = "acquire" /\ poisoned /\ pc'[t] # "acquire") =>
              /\ pc'[t] = "idle"
              /\ (Items(snapshot[t]))' = <<>>
              /\ history' = history
              /\ holder' = holder]_vars

\* C6's case: the empty sequence was returned while the history held records.
C6_Witness ==
    /\ poisoned
    /\ history # <<>>
    /\ \E t \in Threads :
          got[t] = "default" /\ pc[t] = "idle" /\ Items(snapshot[t]) = <<>>

\* C7: with the lock healthy, the push of a call appends exactly one record:
\* the severity of the method called, the caller's component and message,
\* and the timestamp printed on the call's line.
C7_RecordIsTheCall ==
    [][\A t \in Threads :
          (pc[t] = "push" /\ pc'[t] = "trim") =>
              history' = Append(history,
                                [timestamp |-> console[cur[t]].timestamp,
                                 level |-> LevelOfMethod(calls[cur[t]].method),
                                 component |-> calls[cur[t]].component,
                                 message |-> calls[cur[t]].message])]_vars

\* C7's case: critical has pushed its record, after another method's.
C7_Witness ==
    /\ \E t \in Threads :
          /\ pc[t] = "trim"
          /\ calls[cur[t]].method = "critical"
          /\ history[Len(history)].level = "CRITICAL"
          /\ history[Len(history)].component = "SECURITY"
    /\ Len(pushed) >= 2
    /\ calls[pushed[1]].method # "critical"

\* C8: get_history leaves the history as it is, and a get_history that
\* returns when no record was pushed since another one returned, returns a
\* sequence equal to the one that one returned.
C8_ReadsAgree ==
    [][\A t \in Threads :
          /\ (pc[t] \in {"acquire", "clone"} /\ pc'[t] # pc[t]) => history' = history
          /\ (pc[t] \in {"acquire", "clone"} /\ pc'[t] = "idle") =>
                \A u \in Threads :
                    FreshCopy(u) => (Items(snapshot[t]))' = Items(snapshot[u])]_vars

\* C8's case: two calls of get_history have returned, no push between them.
C8_Witness ==
    /\ reads >= 2
    /\ history # <<>>
    /\ \E t, u \in Threads :
          /\ t # u
          /\ FreshCopy(t)
          /\ FreshCopy(u)
          /\ Items(snapshot[t]) = Items(snapshot[u])

\* C9: what get_history returns is the history at that moment, oldest
\* record first, and no step of a log call changes a sequence returned.
C9_SnapshotIsACopy ==
    [][\A t \in Threads :
          /\ (pc[t] = "clone" /\ pc'[t] = "idle") =>
                /\ Len(history) <= NPushed
                /\ (Items(snapshot[t]))' = history
                /\ \A i \in 1..Len(history) :
                      history[i] = Expected(PushOrder(NPushed - Len(history) + i))
          /\ (\E u \in Threads : InLog(u) /\ pc'[u] # pc[u]) =>
                (Items(snapshot[t]))' = Items(snapshot[t])
          /\ calls' # calls => (Items(snapshot[t]))' = Items(snapshot[t])]_vars

\* C9's case: a full history was copied, and a later call evicted a record.
C9_Witness ==
    \E t \in Threads :
        /\ got[t] = "copy"
        /\ Len(Items(snapshot[t])) = Capacity
        /\ ver[t] < Len(pushed)
        /\ holder = NoThread
        /\ Len(history) = Capacity
        /\ Items(snapshot[t])[1] # history[1]

\* C10: under fair scheduling every call made ends: it returns, unless it
\* is the call whose allocation panics, which unwinds.  A thread that is in
\* no call does not hold the lock, the thread that holds the lock can always
\* take its next step, and so can a thread in a call when the lock is free.
C10_CallsComplete ==
    /\ \A t \in Threads :
          (pc[t] \notin {"idle", "panicked"}) ~> (pc[t] \in {"idle", "panicked"})
    /\ [](\A t \in Threads : pc[t] \in {"idle", "panicked"} => holder # t)
    /\ [](\A t \in Threads :
              (pc[t] \notin {"idle", "panicked"} /\ holder \in {NoThread, t})
                  => ENABLED InCallStep(t))

\* C10's case: a thread in a call waits for the lock another thread holds.
C10_Witness ==
    \E t, u \in Threads :
        /\ t # u
        /\ pc[t] \in {"lock", "acquire"}
        /\ holder = u
        /\ pc[u] = "trim"

\* Every call since the initial state was made by thread 1, as were the
\* calls before it.
SingleThreaded == \A k \in 1..Len(calls) : calls[k].thread = 1

\* Each call read the wall clock at a later instant than the call before it
\* (the calls before the initial state read it before every instant here).
InWallClockOrder ==
    \A k \in 1..Len(calls) - 1 : calls[k].at < calls[k + 1].at

\* C11: when one thread makes all log calls, each at a later wall-clock
\* instant than the one before, the timestamps recorded in the history
\* never decrease from a record to the next.
C11_TimestampsNonDecreasing ==
    (SingleThreaded /\ InWallClockOrder) =>
        \A i \in 1..Len(history) - 1 :
            history[i].timestamp <= history[i + 1].timestamp

\* C11's case: one thread has recorded two calls made at increasing
\* instants, the second a millisecond on.
C11_Witness ==
    /\ SingleThreaded
    /\ InWallClockOrder
    /\ Len(pushed) = 2
    /\ calls[1].at < calls[2].at
    /\ history[Len(history) - 1].timestamp < history[Len(history)].timestamp

\* The label and the style each severity is to be printed with.
LabelOf(lv) ==
    CASE lv = "DEBUG"    -> "DEBUG"
      [] lv = "INFO"     -> "INFO"
      [] lv = "WARN"     -> "WARN"
      [] lv = "ERROR"    -> "ERROR"
      [] lv = "CRITICAL" -> "CRIT"

StyleOf(lv) ==
    CASE lv = "DEBUG"    -> <<"cyan", "none">>
      [] lv = "INFO"     -> <<"green", "none">>
      [] lv = "WARN"     -> <<"yellow", "none">>
      [] lv = "ERROR"    -> <<"red", "none">>
      [] lv = "CRITICAL" -> <<"white", "red">>

\* The severity field of a printed line is lv's label, centred in 7
\* characters, in lv's style.
RenderedAs(sev, lv) ==
    /\ sev.label.text = LabelOf(lv)
    /\ sev.label.left + Len(sev.label.text) + sev.label.right = 7
    /\ sev.label.right - sev.label.left \in {0, 1}
    /\ <<sev.fg, sev.bg>> = StyleOf(lv)

InSection(t) == pc[t] \in {"push", "trim", "clone"}

\* C13: log, whichever of the five methods called it, and get_history take
\* the same lock: at most one thread is at the append, the eviction or the
\* copy, and it is the lock's holder.  The sequence a get_history returns
\* is the history as it stands after some number n of appends, each with
\* its eviction done, no other thread being at an eviction: the last
\* min(n, 1000) records appended, never 1001.
C13_OneLockForAll ==
    /\ [](\A t, u \in Threads : (InSection(t) /\ InSection(u)) => t = u)
    /\ [](\A t \in Threads : InSection(t) <=> holder = t)
    /\ [][\A t \in Threads :
            (pc[t] = "clone" /\ pc'[t] = "idle") =>
                LET n == NPushed
                    len == IF n > 1000 THEN 1000 ELSE n
                    items == (Items(snapshot[t]))'
                IN  /\ \A u \in Threads : pc[u] # "trim"
                    /\ Len(items) = len
                    /\ \A i \in 1..len :
                          items[i] = Expected(PushOrder(n - len + i))]_vars

\* C13's case: a get_history waits for the lock while a log call holds it
\* between its append and its eviction, the history 1001 long; the same
\* thread's earlier get_history returned the 1000 records of that moment.
C13_Witness ==
    \E t, u \in Threads :
        /\ t # u
        /\ pc[t] = "acquire"
        /\ pc[u] = "trim"
        /\ holder = u
        /\ Len(history) = 1001
        /\ got[t] = "copy"
        /\ ver[t] = 1
        /\ Len(Items(snapshot[t])) = 1000

\* C14: a log call goes through its steps in this order: it captures the
\* timestamp and prints its line, not holding the lock and leaving lock and
\* history alone; then it takes the lock; then, holding it, it appends its
\* record; then it evicts and releases the lock.  No other step prints or
\* changes the history, and every record appended since the initial state
\* is that of a call whose line is on the console.
C14_PrintThenLockThenAppend ==
    /\ [](\A i \in 1..Len(pushed) :
             /\ pushed[i] \in 1..Len(console)
             /\ console[pushed[i]].thread = calls[pushed[i]].thread
             /\ console[pushed[i]].component = calls[pushed[i]].component
             /\ console[pushed[i]].message = calls[pushed[i]].message)
    /\ [][\A t \in Threads :
            /\ (pc[t] = "idle" /\ pc'[t] \notin {"idle", "acquire"}) =>
                  /\ pc'[t] = "lock"
                  /\ Len(console') = Len(console) + 1
                  /\ console'[Len(console')].thread = t
                  /\ console'[Len(console')].timestamp = timestamp'[t]
                  /\ SubSeq(console', 1, Len(console)) = console
                  /\ holder # t
                  /\ holder' = holder
                  /\ history' = history
            /\ (pc[t] = "lock" /\ pc'[t] # "lock") =>
                  /\ pc'[t] \in {"push", "idle"}
                  /\ holder = NoThread
                  /\ pc'[t] = "push" <=> holder' = t
                  /\ console[cur[t]].thread = t
                  /\ console' = console
                  /\ history' = history
            /\ (pc[t] = "push" /\ pc'[t] # "push") =>
                  /\ pc'[t] \in {"trim", "panicked"}
                  /\ holder = t
                  /\ pc'[t] = "trim" =>
                        /\ holder' = t
                        /\ Len(history') = Len(history) + 1
                        /\ history'[Len(history')].timestamp
                              = console[cur[t]].timestamp
                  /\ console' = console
            /\ (pc[t] = "trim" /\ pc'[t] # "trim") =>
                  /\ pc'[t] = "idle"
                  /\ holder = t
                  /\ holder' = NoThread
                  /\ console' = console
            /\ console' # console =>
                  \E u \in Threads : pc[u] = "idle" /\ pc'[u] = "lock"
            /\ history' # history =>
                  \E u \in Threads : holder = u /\ pc[u] \in {"push", "trim"}
                                                /\ pc'[u] # pc[u]]_vars

\* C14's case: a call has printed its line and waits for the lock, which
\* the thread of an earlier call holds, its record appended.
C14_Witness ==
    \E t, u \in Threads :
        /\ t # u
        /\ pc[t] = "lock"
        /\ pc[u] = "trim"
        /\ holder = u
        /\ pushed = <<1>>
        /\ Len(console) = 2
        /\ console[2].thread = t
        /\ console[1].thread = u
        /\ Len(history) = start + 1

\* C15: all HorizonLogger values share the one history.  Constructing one
\* changes neither the history nor its lock, and what get_history returns
\* through any logger is the whole history: the record of every call
\* appended, whichever logger the call was made on.
C15_OneHistoryForAllLoggers ==
    [][\A t \in Threads :
          /\ logger'[t] # logger[t] =>
                /\ history' = history
                /\ holder' = holder
                /\ poisoned' = poisoned
                /\ \A u \in Threads :
                      (Items(snapshot[u]))' = Items(snapshot[u])
          /\ (pc[t] = "clone" /\ pc'[t] = "idle") =>
                /\ Len((Items(snapshot[t]))') = Len(pushed)
                /\ \A i \in 1..Len(pushed) :
                      (Items(snapshot[t]))'[i]
                          = [timestamp |-> console[pushed[i]].timestamp,
                             level |-> LevelOfMethod(calls[pushed[i]].method),
                             component |-> calls[pushed[i]].component,
                             message |-> calls[pushed[i]].message]]_vars

\* C15's case: a thread logged a record through the first logger, then
\* constructed a second one, the history keeping the record, and is at the
\* copy of a get_history called on the second.
C15_Witness ==
    \E t \in Threads :
        /\ logger[t] = 2
        /\ pc[t] = "clone"
        /\ pushed = <<1>>
        /\ calls[1].via = 1
        /\ calls[1].thread = t
        /\ Len(history) = 1
        /\ history[1].message = calls[1].message

\* The thread that made call number k (thread 1 made the calls before the
\* initial state).
ThreadOf(k) == IF k <= start THEN 1 ELSE calls[k - start].thread

\* The numbers of the calls whose records the history holds, oldest first:
\* those of the last Len(history) appends.
Retained ==
    [i \in 1..Len(history) |-> PushOrder(NPushed - Len(history) + i)]

\* Those of them that thread t made.
OfThread(r, t) == SelectSeq(r, LAMBDA k : ThreadOf(k) = t)

\* Call number k has appended its record.
HasAppended(k) == k <= start \/ \E i \in 1..Len(pushed) : pushed[i] = k - start

\* The calls made since the initial state that have returned.
Completed == {k \in 1..Len(calls) : \A u \in Threads : cur[u] # k}

\* The records of the history are those of the last appends; those of one
\* thread stand in the order of its calls and are the last of its calls
\* that have appended, none left out between them.
InCallOrder ==
    /\ Len(history) <= NPushed
    /\ \A all \in {Retained} :
          /\ \A i \in 1..Len(history) : history[i] = Expected(all[i])
          /\ \A t \in Threads :
                \A r \in {OfThread(all, t)} :
                    /\ \A i \in 1..Len(r) - 1 : r[i] < r[i + 1]
                    /\ r # <<>> =>
                          Cardinality({k \in r[1]..NCalls :
                                          ThreadOf(k) = t /\ HasAppended(k)})
                              = Len(r)

\* C16: under every interleaving the history holds, at the start and after
\* every step that changes it (an append is such a step), the records of
\* the last appends, those of one thread in the order of that thread's
\* calls and the last of its calls that have appended.  With the lock free
\* and not poisoned, N calls having returned, the history holds
\* min(N, 1000) records.
C16_PerThreadOrderNoLoss ==
    /\ InCallOrder
    /\ [][history' # history => InCallOrder']_vars
    /\ [][pushed' # pushed => history' # history]_vars
    /\ []((~poisoned /\ holder = NoThread) =>
             LET n == start + Cardinality(Completed)
             IN  Len(history) = IF n > 1000 THEN 1000 ELSE n)

\* C16's case: two threads' calls overlapped and were appended in the other
\* order, the second evicting a record of thread 1; both have returned.
C16_Witness ==
    /\ ~poisoned
    /\ holder = NoThread
    /\ \A t \in Threads : pc[t] = "idle"
    /\ pushed = <<2, 1>>
    /\ calls[1].thread = 1
    /\ calls[2].thread = 2
    /\ Len(history) = 1000
    /\ Len(OfThread(Retained, 1)) = 999
    /\ OfThread(Retained, 2) = <<start + 2>>
    /\ Cardinality(Completed) = 2

\* C17: once the lock is poisoned it stays poisoned.  From then on no step
\* changes the history or appends to it and no thread gets the lock's
\* guard; every get_history that returns, returns the empty sequence,
\* whatever the history holds; every log call made prints its line, and
\* every log call that reaches the lock returns there.
C17_PoisonIsForever ==
    [][poisoned =>
          /\ poisoned'
          /\ history' = history
          /\ pushed' = pushed
          /\ holder' \in {holder, NoThread}
          /\ \A t \in Threads :
                /\ pc'[t] # pc[t] => pc'[t] \notin {"push", "trim", "clone"}
                /\ (pc[t] = "acquire" /\ pc'[t] # "acquire") =>
                      /\ pc'[t] = "idle"
                      /\ (Items(snapshot[t]))' = <<>>
                /\ (pc[t] = "idle" /\ pc'[t] = "lock") =>
                      /\ Len(console') = Len(console) + 1
                      /\ console'[Len(console')].thread = t
                /\ (pc[t] = "lock" /\ pc'[t] # "lock") =>
                      /\ pc'[t] = "idle"
                      /\ console' = console]_vars

\* C17's case: the lock is poisoned, the history holding records; a log
\* call made after the first one had returned has met the poisoned lock and
\* returned, its line printed and no record appended, and a get_history
\* has returned the empty sequence.
C17_Witness ==
    /\ poisoned
    /\ history # <<>>
    /\ holder = NoThread
    /\ Len(calls) = 2
    /\ pushed = <<1>>
    /\ calls[2].prior = {1}
    /\ Len(console) = 2
    /\ \A t \in Threads : cur[t] # 2
    /\ \E t \in Threads :
          /\ got[t] = "default"
          /\ pc[t] = "idle"
          /\ Items(snapshot[t]) = <<>>
          /\ Items(snapshot[t]) # history

====
